---- MODULE Spec2Model ----
\* Model of src/main.rs: an authenticating reverse proxy.
\*   main      reads AUTH_TOKEN / UPSTREAM_URL / BIND_ADDR and starts serving;
\*   handle    runs authorize, then forward, and maps every outcome to a response;
\*   authorize compares the first Authorization header value with the token;
\*   forward   rebuilds the URI on the upstream origin, overwrites Host, sends once.
\* Each request task is modelled by its position (pc) between the await points of
\* handle.  Text is modelled as sequences: header values and the token as byte
\* sequences, URIs as sequences of lexical tokens ("http", "://", "up:9001", ...).
EXTENDS Integers, Sequences, FiniteSets, TLC

\* ---------------------------------------------------------------- bounds
NumTasks == 2
MaxAuthValues == 2

Tasks == 1..NumTasks

\* ---------------------------------------------------------------- Option / Result
None == <<>>
Some(x) == <<x>>
IsSome(o) == o # <<>>

\* ---------------------------------------------------------------- responses
UNAUTHORIZED == 401
BAD_GATEWAY == 502

Response(status, body) == [status |-> status, body |-> body]

InvalidTokenResponse == Response(UNAUTHORIZED, "Invalid auth token")
MissingHeaderResponse == Response(UNAUTHORIZED, "Missing Authorization header")
BadGatewayResponse == Response(BAD_GATEWAY, "Bad Gateway")

\* ---------------------------------------------------------------- header values
\* HeaderValue::to_str: Some(text) only when every byte is visible ASCII or tab.
IsVisibleAscii(b) == (b >= 32 /\ b < 127) \/ b = 9

to_str(value) ==
    IF \A i \in 1..Len(value) : IsVisibleAscii(value[i]) THEN Some(value) ELSE None

\* HeaderMap::get: the first value stored under the name, if any.
get(headers, name) ==
    IF headers[name] = <<>> THEN None ELSE Some(headers[name][1])

\* HeaderMap::insert: replaces every value stored under the name.
insert(headers, name, value) == [headers EXCEPT ![name] = <<value>>]

\* env::var: Err when the variable is absent or is not valid Unicode.
\* (UTF-8 validity for one- and two-byte sequences; AuthTokenEnv holds no longer ones.)
RECURSIVE IsUtf8(_)
IsUtf8(b) ==
    IF b = <<>> THEN TRUE
    ELSE IF b[1] < 128 THEN IsUtf8(Tail(b))
    ELSE IF b[1] \in 194..223 /\ Len(b) >= 2 /\ b[2] \in 128..191
         THEN IsUtf8(Tail(Tail(b)))
    ELSE FALSE

env_var(value, unicode) == IF IsSome(value) /\ unicode THEN value ELSE None

\* ---------------------------------------------------------------- URIs
SchemeTokens == {"http"}
AuthorityTokens == {"up:9001", "client.example", "client.example:443"}
PathTokens == {"/", "/base", "/a%20b", "/a", "*"}
QueryTokens == {"?", "x=1", "k=v"}

Uri(scheme, authority, pq) == [scheme |-> scheme, authority |-> authority, pq |-> pq]

\* PathAndQuery::from_str: stops at a fragment, fails on an invalid character.
RECURSIVE ParsePathAndQueryFrom(_, _)
ParsePathAndQueryFrom(text, acc) ==
    IF text = <<>> THEN [ok |-> TRUE, val |-> acc]
    ELSE IF text[1] = "#" THEN [ok |-> TRUE, val |-> acc]
    ELSE IF text[1] \in PathTokens \cup QueryTokens
         THEN ParsePathAndQueryFrom(Tail(text), Append(acc, text[1]))
    ELSE [ok |-> FALSE, val |-> <<>>]

ParsePathAndQuery(text) == ParsePathAndQueryFrom(text, <<>>)

\* Uri::from_str.
ParseUri(text) ==
    LET bad == [ok |-> FALSE, val |-> Uri(None, None, <<>>)]
        hasScheme == Len(text) >= 2 /\ text[1] \in SchemeTokens /\ text[2] = "://"
        rest == IF hasScheme THEN SubSeq(text, 3, Len(text)) ELSE text
        authorityEnd == IF rest # <<>> /\ rest[1] \in AuthorityTokens THEN 1 ELSE 0
        tail == SubSeq(rest, authorityEnd + 1, Len(rest))
        pq == ParsePathAndQuery(tail)
    IN  IF text = <<>> THEN bad
        ELSE IF text[1] \in PathTokens
             THEN LET p == ParsePathAndQuery(text)
                  IN  IF p.ok THEN [ok |-> TRUE, val |-> Uri(None, None, p.val)] ELSE bad
        ELSE IF ~hasScheme
             THEN IF authorityEnd = 1 /\ Len(rest) = 1
                  THEN [ok |-> TRUE, val |-> Uri(None, Some(rest[1]), <<>>)]
                  ELSE bad
        ELSE IF authorityEnd = 0 THEN bad
        ELSE IF pq.ok THEN [ok |-> TRUE, val |-> Uri(Some(text[1]), Some(rest[1]), pq.val)]
        ELSE bad

\* Uri::path_and_query: None for a URI with neither a scheme nor a path.
path_and_query(uri) ==
    IF uri.scheme = None /\ uri.pq = <<>> THEN None ELSE Some(uri.pq)

\* PathAndQuery::as_str: an empty path and query reads "/".
as_str(pq) == IF pq = <<>> THEN <<"/">> ELSE pq

\* Uri::into_parts.
into_parts(uri) ==
    [scheme |-> uri.scheme,
     authority |-> uri.authority,
     path_and_query |-> path_and_query(uri)]

\* Uri::from_parts: a scheme needs an authority and a path; an authority with a
\* path needs a scheme.
from_parts(parts) ==
    IF IsSome(parts.scheme) /\ (parts.authority = None \/ parts.path_and_query = None)
    THEN [ok |-> FALSE, val |-> Uri(None, None, <<>>)]
    ELSE IF parts.scheme = None /\ IsSome(parts.authority) /\ IsSome(parts.path_and_query)
    THEN [ok |-> FALSE, val |-> Uri(None, None, <<>>)]
    ELSE [ok |-> TRUE,
          val |-> Uri(parts.scheme, parts.authority,
                      IF IsSome(parts.path_and_query) THEN parts.path_and_query[1] ELSE <<>>)]

\* ---------------------------------------------------------------- the handlers
AUTHORIZATION == "authorization"

\* Trailing spaces and tabs removed.
RECURSIVE TrimEnd(_)
TrimEnd(value) ==
    IF value # <<>> /\ value[Len(value)] \in {32, 9}
    THEN TrimEnd(SubSeq(value, 1, Len(value) - 1))
    ELSE value

\* Mutant: any Authorization header is accepted, whatever its value.
authorize_any_value(request, token) ==
    LET value == get(request.headers, AUTHORIZATION)
    IN  IF IsSome(value)
        THEN [ok |-> TRUE, req |-> Some(request), resp |-> None]
        ELSE [ok |-> FALSE, req |-> None, resp |-> Some(MissingHeaderResponse)]

\* Mutant: the header value is trimmed before the comparison.
authorize_trimmed(request, token) ==
    LET value == get(request.headers, AUTHORIZATION)
    IN  IF IsSome(value)
        THEN IF to_str(TrimEnd(value[1])) = Some(token)
             THEN [ok |-> TRUE, req |-> Some(request), resp |-> None]
             ELSE [ok |-> FALSE, req |-> None, resp |-> Some(InvalidTokenResponse)]
        ELSE [ok |-> FALSE, req |-> None, resp |-> Some(MissingHeaderResponse)]

\* Mutant: a missing header is compared as an empty value.
authorize_missing_as_empty(request, token) ==
    LET value == get(request.headers, AUTHORIZATION)
        text == IF IsSome(value) THEN to_str(value[1]) ELSE Some(<<>>)
    IN  IF text = Some(token)
        THEN [ok |-> TRUE, req |-> Some(request), resp |-> None]
        ELSE [ok |-> FALSE, req |-> None, resp |-> Some(InvalidTokenResponse)]

\* authorize: Ok(req) when the first Authorization value reads as text equal to the
\* token, Err(401) otherwise.
authorize(request, token) ==
    LET value == get(request.headers, AUTHORIZATION)
    IN  IF IsSome(value)
        THEN IF to_str(value[1]) = Some(token)
             THEN [ok |-> TRUE, req |-> Some(request), resp |-> None]
             ELSE [ok |-> FALSE, req |-> None, resp |-> Some(InvalidTokenResponse)]
        ELSE [ok |-> FALSE, req |-> None, resp |-> Some(MissingHeaderResponse)]

\* Mutant: the request path is appended to the upstream URI's own path.
forward_new_req_joined(request, upstream_base) ==
    LET parts == into_parts(upstream_base)
        orig_pq == path_and_query(request.uri)
        new_path == upstream_base.pq \o (IF IsSome(orig_pq) THEN as_str(orig_pq[1]) ELSE <<"/">>)
        parsed == ParsePathAndQuery(new_path)
        uri == from_parts([parts EXCEPT !.path_and_query = Some(parsed.val)])
        headers == IF IsSome(parts.authority)
                   THEN insert(request.headers, "host", parts.authority[1])
                   ELSE request.headers
    IN  IF ~parsed.ok \/ ~uri.ok
        THEN [ok |-> FALSE, req |-> None]
        ELSE [ok |-> TRUE,
              req |-> Some([request EXCEPT !.uri = uri.val, !.headers = headers])]

\* forward, up to the request it hands to the client: ok = FALSE is a panic of
\* one of its unwrap/expect calls.
forward_new_req(request, upstream_base) ==
    LET parts == into_parts(upstream_base)
        orig_pq == path_and_query(request.uri)
        new_path == IF IsSome(orig_pq) THEN as_str(orig_pq[1]) ELSE <<"/">>
        parsed == ParsePathAndQuery(new_path)
        uri == from_parts([parts EXCEPT !.path_and_query = Some(parsed.val)])
        headers == IF IsSome(parts.authority)
                   THEN insert(request.headers, "host", parts.authority[1])
                   ELSE request.headers
    IN  IF ~parsed.ok \/ ~uri.ok
        THEN [ok |-> FALSE, req |-> None]
        ELSE [ok |-> TRUE,
              req |-> Some([request EXCEPT !.uri = uri.val, !.headers = headers])]

\* Client::request(new_req).await: the client refuses a URI that is not in absolute
\* form without touching the network; otherwise the network decides.
AbsoluteUriRequired == [ok |-> FALSE, resp |-> None, error |-> "client requires absolute-form URIs"]

client_request(request, outcome) ==
    IF request.uri.scheme = None \/ request.uri.authority = None
    THEN AbsoluteUriRequired
    ELSE outcome

\* Mutant: the transport error's text is put in the 502 body.
forward_result_response_leaky(result) ==
    IF result.ok THEN result.resp[1] ELSE Response(BAD_GATEWAY, result.error)

\* handle's match on forward's result.
forward_result_response(result) ==
    IF result.ok THEN result.resp[1] ELSE BadGatewayResponse

\* handle, run to completion for one request: aborted = TRUE when it panics.
handle(request, token, upstream_base, outcome) ==
    LET verdict == authorize(request, token)
        built == forward_new_req(verdict.req[1], upstream_base)
    IN  IF ~verdict.ok THEN [aborted |-> FALSE, resp |-> verdict.resp]
        ELSE IF ~built.ok THEN [aborted |-> TRUE, resp |-> None]
        ELSE [aborted |-> FALSE,
              resp |-> Some(forward_result_response(client_request(built.req[1], outcome)))]

\* ---------------------------------------------------------------- inputs
\* Authorization values: "s", "s " (trailing space), "B s" (scheme prefix), and the
\* two bytes of UTF-8 "e-acute".
AuthValues == {<<115>>, <<115, 32>>, <<66, 32, 115>>, <<195, 169>>}
AuthSeqs == UNION {[1..n -> AuthValues] : n \in 0..MaxAuthValues}
HostSeqs == {<<>>, <<"client.example">>, <<"up:9001">>}

\* Request line: method and the Uri hyper parsed from the request target.
RequestLines ==
    {[method |-> "GET", uri |-> Uri(None, None, <<"/a%20b", "?", "x=1">>)],
     [method |-> "POST", uri |-> Uri(None, None, <<"/a", "?">>)],
     [method |-> "CONNECT", uri |-> Uri(None, Some("client.example:443"), <<>>)],
     [method |-> "GET", uri |-> Uri(Some("http"), Some("client.example"), <<>>)],
     [method |-> "GET", uri |-> Uri(Some("http"), Some("client.example"), <<"?", "x=1">>)],
     [method |-> "OPTIONS", uri |-> Uri(None, None, <<"*">>)]}

Request(line, auth, host) ==
    [method |-> line.method,
     uri |-> line.uri,
     headers |-> [authorization |-> auth, host |-> host, x_trace |-> <<"t1", "t2">>],
     body |-> "payload"]

Requests == {Request(l, a, h) : l \in RequestLines, a \in AuthSeqs, h \in HostSeqs}

SmallRequests ==
    {Request(l, a, <<"client.example">>) :
        l \in {x \in RequestLines : x.method = "GET" /\ x.uri.pq # <<"?", "x=1">>},
        a \in {<<>>, <<<<115>>>>, <<<<66, 32, 115>>>>}}

\* What the upstream does with a request sent to it.
UpstreamReplies ==
    {Response(200, "{\"ok\":true}"), Response(404, "not found"), Response(500, "upstream error")}
TransportErrors == {"connection refused", "operation timed out", "dns error", "invalid HTTP"}
Outcomes ==
    {[ok |-> TRUE, resp |-> Some(r), error |-> ""] : r \in UpstreamReplies}
    \cup {[ok |-> FALSE, resp |-> None, error |-> e] : e \in TransportErrors}
SmallOutcomes ==
    {o \in Outcomes : o.resp = Some(Response(200, "{\"ok\":true}")) \/ o.error = "connection refused"}

\* Environment: AUTH_TOKEN as bytes ("s", UTF-8 e-acute, Latin-1 e-acute),
\* UPSTREAM_URL as lexical tokens, BIND_ADDR as text.
AuthTokenEnv == {None, Some(<<115>>), Some(<<195, 169>>), Some(<<233>>)}
UpstreamUrlEnv ==
    {None,
     Some(<<"http", "://", "up:9001">>),
     Some(<<"http", "://", "up:9001", "/base", "?", "k=v">>),
     Some(<<"up:9001">>),
     Some(<<"/base">>),
     Some(<<"http", "://">>),
     Some(<<"up:9001", "/base">>),
     Some(<<"http", "://", "up 9001">>),
     Some(<<>>)}
BindAddrEnv == {None, Some("0.0.0.0:8080"), Some("nonsense")}
DefaultBindAddr == "127.0.0.1:3000"
SocketAddrs == {"127.0.0.1:3000", "0.0.0.0:8080"}

\* ---------------------------------------------------------------- state
VARIABLES
    env,                \* the process environment
    phase,              \* "startup" | "serving" | "exited"
    auth_token,         \* main: Option<String>
    upstream_base,      \* main: Option<Uri>
    addr,               \* main: Option<SocketAddr>
    pc,                 \* per task: "idle" | "Validating" | "Forwarding" | "Awaiting" | "Done" | "Aborted"
    args,               \* per task: the arguments of handle (req and the two clones)
    net,                \* per task: what the upstream does with this request
    authenticated_req,  \* per task: the request authorize returned
    new_req,            \* per task: the request forward handed to the client
    dispatches,         \* per task: calls of client.request
    resp                \* per task: the response handle returned

vars == <<env, phase, auth_token, upstream_base, addr, pc, args, net,
          authenticated_req, new_req, dispatches, resp>>

config == <<auth_token, upstream_base, addr>>
task_vars == <<pc, args, net, authenticated_req, new_req, dispatches, resp>>

Init ==
    /\ env \in [AUTH_TOKEN : AuthTokenEnv, UPSTREAM_URL : UpstreamUrlEnv, BIND_ADDR : BindAddrEnv]
    /\ phase = "startup"
    /\ auth_token = None
    /\ upstream_base = None
    /\ addr = None
    /\ pc = [r \in Tasks |-> "idle"]
    /\ args = [r \in Tasks |-> None]
    /\ net = [r \in Tasks |-> None]
    /\ authenticated_req = [r \in Tasks |-> None]
    /\ new_req = [r \in Tasks |-> None]
    /\ dispatches = [r \in Tasks |-> 0]
    /\ resp = [r \in Tasks |-> None]

\* main, up to Server::bind(..).serve(..): every expect that fails ends the process.
Main ==
    LET token == env_var(env.AUTH_TOKEN, IsSome(env.AUTH_TOKEN) /\ IsUtf8(env.AUTH_TOKEN[1]))
        upstream_str == env_var(env.UPSTREAM_URL, TRUE)
        base == ParseUri(upstream_str[1])
        bind == IF IsSome(env_var(env.BIND_ADDR, TRUE)) THEN env.BIND_ADDR[1] ELSE DefaultBindAddr
        started == /\ IsSome(token)
                   /\ IsSome(upstream_str)
                   /\ base.ok
                   /\ bind \in SocketAddrs
    IN  /\ phase = "startup"
        /\ IF started
           THEN /\ phase' = "serving"
                /\ auth_token' = token
                /\ upstream_base' = Some(base.val)
                /\ addr' = Some(bind)
           ELSE /\ phase' = "exited"
                /\ UNCHANGED config
        /\ UNCHANGED <<env, task_vars>>

\* Mutant: the handler reads the request of the highest-numbered task in flight (a
\* request slot shared between tasks).
TaskRequest_shared(r) ==
    args[CHOOSE q \in Tasks : args[q] # None /\ \A p \in Tasks : args[p] # None => p <= q][1].req

\* The request handle(req, ..) works on.
TaskRequest(r) == args[r][1].req

\* service_fn closure: clone the configuration and call handle(req, ..).
Accept(r, requests, outcomes) ==
    /\ phase = "serving"
    /\ pc[r] = "idle"
    /\ \E request \in requests, outcome \in outcomes :
          /\ args' = [args EXCEPT ![r] = Some([req |-> request,
                                                auth_token |-> auth_token[1],
                                                upstream_base |-> upstream_base[1]])]
          /\ net' = [net EXCEPT ![r] = Some(outcome)]
    /\ pc' = [pc EXCEPT ![r] = "Validating"]
    /\ UNCHANGED <<env, phase, config, authenticated_req, new_req, dispatches, resp>>

\* handle: authorize(req, auth_token).await and the match on its result.
Authorize(r) ==
    LET verdict == authorize(TaskRequest(r), args[r][1].auth_token)
    IN  /\ pc[r] = "Validating"
        /\ IF verdict.ok
           THEN /\ authenticated_req' = [authenticated_req EXCEPT ![r] = verdict.req]
                /\ pc' = [pc EXCEPT ![r] = "Forwarding"]
                /\ UNCHANGED resp
           ELSE /\ resp' = [resp EXCEPT ![r] = verdict.resp]
                /\ pc' = [pc EXCEPT ![r] = "Done"]
                /\ UNCHANGED authenticated_req
        /\ UNCHANGED <<env, phase, config, args, net, new_req, dispatches>>

\* forward, up to client.request(new_req): a panic aborts the task.
Forward(r) ==
    LET built == forward_new_req(authenticated_req[r][1], args[r][1].upstream_base)
    IN  /\ pc[r] = "Forwarding"
        /\ IF built.ok
           THEN /\ new_req' = [new_req EXCEPT ![r] = built.req]
                /\ dispatches' = [dispatches EXCEPT ![r] = @ + 1]
                /\ pc' = [pc EXCEPT ![r] = "Awaiting"]
           ELSE /\ pc' = [pc EXCEPT ![r] = "Aborted"]
                /\ UNCHANGED <<new_req, dispatches>>
        /\ UNCHANGED <<env, phase, config, args, net, authenticated_req, resp>>

\* The client's future resolves; handle maps its result to the response.
Complete(r) ==
    LET result == client_request(new_req[r][1], net[r][1])
    IN  /\ pc[r] = "Awaiting"
        /\ resp' = [resp EXCEPT ![r] = Some(forward_result_response(result))]
        /\ pc' = [pc EXCEPT ![r] = "Done"]
        /\ UNCHANGED <<env, phase, config, args, net, authenticated_req, new_req, dispatches>>

AcceptOne == Accept(1, Requests, Outcomes)
AuthorizeOne == Authorize(1)
ForwardOne == Forward(1)
CompleteOne == Complete(1)

AcceptAny == \E r \in Tasks : Accept(r, SmallRequests, SmallOutcomes)
AuthorizeAny == \E r \in Tasks : Authorize(r)
ForwardAny == \E r \in Tasks : Forward(r)
CompleteAny == \E r \in Tasks : Complete(r)

\* One request task, every request shape.
Next == Main \/ AcceptOne \/ AuthorizeOne \/ ForwardOne \/ CompleteOne
Spec == Init /\ [][Next]_vars

\* NumTasks concurrent request tasks.
NextConc == Main \/ AcceptAny \/ AuthorizeAny \/ ForwardAny \/ CompleteAny
SpecConc == Init /\ [][NextConc]_vars

\* ================================================================ properties
Started(r) == pc[r] # "idle"
Finished(r) == pc[r] \in {"Done", "Aborted"}
Req(r) == args[r][1].req
Auth(r) == Req(r).headers.authorization
Token == auth_token[1]
Upstream == upstream_base[1]

\* The claims' notion of a rejected request: no Authorization header, or one whose
\* value (the one the validator reads, the first) differs from the token.
Missing(r) == Started(r) /\ Auth(r) = <<>>
Mismatched(r) == Started(r) /\ Auth(r) # <<>> /\ Auth(r)[1] # Token
Matching(r) == Started(r) /\ Auth(r) # <<>> /\ Auth(r)[1] = Token

\* PathAndQuery::path and ::query of a path-and-query text.
RECURSIVE QueryStart(_, _)
QueryStart(pq, i) ==
    IF i > Len(pq) THEN 0 ELSE IF pq[i] = "?" THEN i ELSE QueryStart(pq, i + 1)
PathOf(pq) ==
    LET q == QueryStart(pq, 1)
        p == IF q = 0 THEN pq ELSE SubSeq(pq, 1, q - 1)
    IN  IF p = <<>> THEN <<"/">> ELSE p
QueryOf(pq) ==
    LET q == QueryStart(pq, 1)
    IN  IF q = 0 THEN None ELSE Some(SubSeq(pq, q + 1, Len(pq)))

\* ---------------------------------------------------------------- C1
\* C1: a request the validator rejects (Authorization missing or different from the
\* token) is never rewritten or dispatched: it has no authorized copy, no outbound
\* request and no dispatch; every dispatched request was authorized as itself; and a
\* rejected request leaves Validating only for Done, with its response.
C1_RejectedNeverDispatched ==
    /\ [](\A r \in Tasks :
            (Missing(r) \/ Mismatched(r)) =>
                /\ pc[r] \in {"Validating", "Done"}
                /\ authenticated_req[r] = None
                /\ new_req[r] = None
                /\ dispatches[r] = 0)
    /\ [](\A r \in Tasks :
            dispatches[r] > 0 => Matching(r) /\ authenticated_req[r] = Some(Req(r)))
    /\ [][\A r \in Tasks :
            ((Missing(r) \/ Mismatched(r)) /\ pc[r] = "Validating" /\ pc'[r] # "Validating")
                => (pc'[r] = "Done" /\ resp'[r] # None)]_vars

C1_Witness ==
    /\ \E r \in Tasks : Mismatched(r) /\ pc[r] = "Done" /\ dispatches[r] = 0
    /\ Token = <<115>>

\* ---------------------------------------------------------------- C2
\* C2: a finished request whose Authorization value equals the token byte for byte,
\* with an upstream that replies (S, B), has the response (S, B).
C2_MatchingTokenPassesThrough ==
    \A r \in Tasks :
        (Finished(r) /\ Matching(r) /\ net[r][1].ok) =>
            (pc[r] = "Done" /\ resp[r] = net[r][1].resp)

\* ---------------------------------------------------------------- C3
\* C3: a request whose Authorization value differs from the token in any byte
\* (trailing space and scheme prefix included) is answered 401 "Invalid auth token".
C3_MismatchIs401Invalid ==
    \A r \in Tasks :
        Mismatched(r) =>
            /\ pc[r] \in {"Validating", "Done"}
            /\ pc[r] = "Done" =>
                   resp[r] = Some([status |-> 401, body |-> "Invalid auth token"])

C3_Witness ==
    \E r \in Tasks :
        /\ pc[r] = "Done"
        /\ Token = <<115>>
        /\ Auth(r) = <<<<115, 32>>>>
        /\ resp[r] = Some([status |-> 401, body |-> "Invalid auth token"])

\* ---------------------------------------------------------------- C4
\* C4: a request without an Authorization header is answered 401
\* "Missing Authorization header", whatever its method, target, Host and body.
C4_MissingIs401Missing ==
    \A r \in Tasks :
        Missing(r) =>
            /\ pc[r] \in {"Validating", "Done"}
            /\ pc[r] = "Done" =>
                   resp[r] = Some([status |-> 401, body |-> "Missing Authorization header"])

C4_Witness ==
    \E r \in Tasks :
        /\ pc[r] = "Done"
        /\ Auth(r) = <<>>
        /\ Req(r).method = "POST"
        /\ resp[r] = Some([status |-> 401, body |-> "Missing Authorization header"])

\* ---------------------------------------------------------------- C5
\* C5: an authorized request whose dispatch ends in a transport error is answered
\* 502 "Bad Gateway" for every kind of error, and the error's text is not the body.
C5_TransportFailureIs502 ==
    \A r \in Tasks :
        (pc[r] = "Done" /\ dispatches[r] > 0 /\ ~net[r][1].ok) =>
            /\ resp[r] = Some([status |-> 502, body |-> "Bad Gateway"])
            /\ resp[r][1].body # net[r][1].error

C5_Witness ==
    \E r \in Tasks :
        /\ pc[r] = "Done"
        /\ dispatches[r] = 1
        /\ IsSome(new_req[r][1].uri.scheme)
        /\ net[r][1].error = "operation timed out"
        /\ resp[r] = Some([status |-> 502, body |-> "Bad Gateway"])

\* ---------------------------------------------------------------- C6
\* C6: every request ends with exactly one response of the three kinds, is
\* dispatched at most once, and no request task ends without a response.
C6_ExactlyOneResponse ==
    \A r \in Tasks :
        /\ pc[r] # "Aborted"
        /\ dispatches[r] <= 1
        /\ pc[r] = "Done" =>
               /\ IsSome(resp[r])
               /\ \/ resp[r] = Some([status |-> 401, body |-> "Invalid auth token"])
                  \/ resp[r] = Some([status |-> 401, body |-> "Missing Authorization header"])
                  \/ resp[r] = Some([status |-> 502, body |-> "Bad Gateway"])
                  \/ (dispatches[r] = 1 /\ resp[r] = net[r][1].resp)

\* ---------------------------------------------------------------- C7
\* C7: the outbound request's Host header is the authority of the configured
\* upstream, whatever the inbound Host was, and every other header is unchanged.
C7_HostIsUpstreamAuthority ==
    \A r \in Tasks :
        IsSome(new_req[r]) =>
            /\ new_req[r][1].headers.host = Upstream.authority
            /\ new_req[r][1].headers.authorization = Req(r).headers.authorization
            /\ new_req[r][1].headers.x_trace = Req(r).headers.x_trace

\* ---------------------------------------------------------------- C8
\* C8: the outbound URI has the upstream's scheme and authority and the inbound
\* path and query verbatim ("/" when the inbound URI has no path); the upstream
\* URI's own path and query are not in it.
C8_OutboundUri ==
    \A r \in Tasks :
        IsSome(new_req[r]) =>
            LET out == new_req[r][1].uri
                inb == Req(r).uri
            IN  /\ out.scheme = Upstream.scheme
                /\ out.authority = Upstream.authority
                /\ out.pq = (IF inb.pq = <<>> THEN <<"/">> ELSE inb.pq)
                /\ PathOf(out.pq) = PathOf(inb.pq)
                /\ QueryOf(out.pq) = QueryOf(inb.pq)
                /\ \A i \in 1..Len(out.pq) : out.pq[i] \notin {"/base", "k=v"}

C8_Witness ==
    /\ phase = "serving"
    /\ Upstream.pq = <<"/base", "?", "k=v">>
    /\ \E r \in Tasks :
        /\ IsSome(new_req[r])
        /\ Req(r).uri.pq = <<"/a%20b", "?", "x=1">>
        /\ new_req[r][1].uri = Uri(Some("http"), Some("up:9001"), <<"/a%20b", "?", "x=1">>)

\* ---------------------------------------------------------------- C9
\* C9: a configuration that startup accepts has an upstream with a scheme and an
\* authority, and no request task aborts in forward.
C9_AcceptedUpstreamIsUsable ==
    /\ phase = "serving" => (IsSome(Upstream.scheme) /\ IsSome(Upstream.authority))
    /\ \A r \in Tasks : pc[r] # "Aborted"

\* ---------------------------------------------------------------- C10
\* C10: in every interleaving each finished task has the result handle gives for
\* its own request alone; the tasks' copies of the configuration equal the
\* configuration, which no step changes once serving; a finished task's result is
\* not changed by the steps of other tasks.
C10_NoInterference ==
    /\ [](\A r \in Tasks :
            Started(r) =>
                /\ args[r][1].auth_token = Token
                /\ args[r][1].upstream_base = Upstream
                /\ Finished(r) =>
                       LET alone == handle(Req(r), Token, Upstream, net[r][1])
                       IN  /\ (pc[r] = "Aborted") = alone.aborted
                           /\ resp[r] = alone.resp)
    /\ [][phase = "serving" => config' = config]_vars
    /\ [][\A r \in Tasks : Finished(r) => (pc'[r] = pc[r] /\ resp'[r] = resp[r])]_vars

C10_Witness ==
    \E r, q \in Tasks :
        /\ r # q
        /\ pc[r] = "Done" /\ pc[q] = "Done"
        /\ resp[r] = Some([status |-> 200, body |-> "{\"ok\":true}"])
        /\ resp[q] = Some([status |-> 401, body |-> "Invalid auth token"])

====
